---- MODULE Spec2Model ----
(***************************************************************************)
(* Reminder scheduling of pinpoint_backend: the recurrence expansion of    *)
(* ReminderService, the reminders table, the APScheduler job store, the    *)
(* dispatcher send_reminder_notification and the periodic sweep            *)
(* check_missed_reminders.                                                 *)
(*                                                                         *)
(* Time is counted in ticks of 300 seconds since Epoch (2027-01-01T00:00   *)
(* UTC): the sweep interval (5 minutes) and the misfire grace time (300 s) *)
(* are one tick each, an hour is 12 ticks, a day 288.                      *)
(*                                                                         *)
(* The API operations are served whether or not the scheduler runs         *)
(* (add_job on a scheduler that is not started keeps the job until it      *)
(* starts). start_scheduler is an operation of the environment. A stop of  *)
(* the process loses the job store and the calls in progress; the table    *)
(* stays. A call of the dispatcher takes no time: time passes only while   *)
(* no call is in progress and no sweep is due.                             *)
(*                                                                         *)
(* A call of _schedule_reminder_task can raise (ArmFailures); what a       *)
(* send_notification call does is a property of the token (transport).     *)
(* The commit that ends a dispatcher call can raise (the committed         *)
(* argument of DispatchMark; SpecRetry draws it), and so can the commit of *)
(* create_reminder (CreateCommit; SpecCreate draws it); the other          *)
(* statements on the database and the construction of NotificationService  *)
(* do not fail.                                                            *)
(*                                                                         *)
(* Spec starts from an empty table with a transport that accepts every     *)
(* message; SpecTable serves update, delete, get and list requests of both *)
(* users, for every id, on a table that                                    *)
(* holds rows of two owners; SpecFanout runs the scheduler on that table   *)
(* for every behaviour of the transport; SpecRetry runs the sweep alone    *)
(* on that table after a restart, with commits that may raise; SpecCreate  *)
(* runs create_reminder in two steps, the rows flushed and armed and then  *)
(* the commit, with the scheduler running in between (the other            *)
(* specifications serve a create in one step); SpecExpand runs             *)
(* _generate_occurrence_times alone.                                       *)
(***************************************************************************)
EXTENDS Integers, Sequences, FiniteSets, TLC

\* ------------------------------------------------------------------ time

TicksPerHour == 12
TicksPerDay == 24 * TicksPerHour
TicksPerWeek == 7 * TicksPerDay
HorizonDays == 365
max_occurrences == 100
SweepInterval == 1
MisfireGrace == 1

Min(a, b) == IF a <= b THEN a ELSE b

\* proleptic Gregorian calendar, as datetime keeps it
IsLeap(y) == (y % 4 = 0 /\ y % 100 # 0) \/ y % 400 = 0

DaysInMonth(y, m) ==
    IF m = 2 THEN (IF IsLeap(y) THEN 29 ELSE 28)
    ELSE IF m \in {4, 6, 9, 11} THEN 30 ELSE 31

DaysFromCivil(y, m, d) ==
    LET yy == IF m <= 2 THEN y - 1 ELSE y
        era == yy \div 400
        yoe == yy - era * 400
        mp == (m + 9) % 12
        doy == (153 * mp + 2) \div 5 + d - 1
        doe == yoe * 365 + yoe \div 4 - yoe \div 100 + doy
    IN era * 146097 + doe - 719468

CivilFromDays(z) ==
    LET zz == z + 719468
        era == zz \div 146097
        doe == zz - era * 146097
        yoe == (doe - doe \div 1460 + doe \div 36524 - doe \div 146096) \div 365
        doy == doe - (365 * yoe + yoe \div 4 - yoe \div 100)
        mp == (5 * doy + 2) \div 153
        d == doy - (153 * mp + 2) \div 5 + 1
        m == IF mp < 10 THEN mp + 3 ELSE mp - 9
        y == yoe + era * 400 + (IF m <= 2 THEN 1 ELSE 0)
    IN [y |-> y, m |-> m, d |-> d]

\* days from 1970-01-01 to the model's epoch 2027-01-01
EpochDay == DaysFromCivil(2027, 1, 1)

\* the instant (in ticks) of a calendar date and a time of day
TicksOf(y, m, d, tod) == (DaysFromCivil(y, m, d) - EpochDay) * TicksPerDay + tod

\* t + relativedelta(months=n): the month moves, the day of month is clipped to
\* the length of the month reached, the time of day is kept
AddMonths(t, n) ==
    LET c == CivilFromDays(EpochDay + t \div TicksPerDay)
        tod == t % TicksPerDay
        mi == (c.m - 1) + n
        y == c.y + mi \div 12
        m == (mi % 12) + 1
        d == Min(c.d, DaysInMonth(y, m))
    IN TicksOf(y, m, d, tod)

\* t + relativedelta(years=n)
AddYears(t, n) ==
    LET c == CivilFromDays(EpochDay + t \div TicksPerDay)
        tod == t % TicksPerDay
        y == c.y + n
        d == Min(c.d, DaysInMonth(y, c.m))
    IN TicksOf(y, c.m, d, tod)

\* ------------------------------------------------------------ recurrence

RecurrenceTypes == {"once", "hourly", "daily", "weekly", "monthly", "yearly"}
EndTypes == {"never", "after_occurrences", "on_date"}

\* recurrence_end_value: None, the decimal string of a count, or an ISO date
\* string, which is a wall-clock reading (local) with a UTC offset (off)
NoValue == [kind |-> "none"]
CountValue(n) == [kind |-> "count", n |-> n]
DateValue(local, off) == [kind |-> "date", local |-> local, off |-> off]

\* the instant an ISO date string denotes
InstantOf(v) == v.local - v.off

\* datetime.fromisoformat(v.replace('Z', '+00:00')) followed by
\* end_date.replace(tzinfo=None): the offset is dropped, not applied
ParseEndDate(v) == v.local

\* one step of the loop: the next candidate after current_time
NextOccurrence(current_time, recurrence_type, recurrence_interval) ==
    CASE recurrence_type = "hourly" -> current_time + recurrence_interval * TicksPerHour
      [] recurrence_type = "daily" -> current_time + recurrence_interval * TicksPerDay
      [] recurrence_type = "weekly" -> current_time + recurrence_interval * TicksPerWeek
      [] recurrence_type = "monthly" -> AddMonths(current_time, recurrence_interval)
      [] recurrence_type = "yearly" -> AddYears(current_time, recurrence_interval)

\* max_count of the expansion
MaxCount(recurrence_end_type, recurrence_end_value) ==
    IF recurrence_end_type = "after_occurrences" /\ recurrence_end_value.kind = "count"
    THEN Min(recurrence_end_value.n, max_occurrences)
    ELSE max_occurrences

\* end_date of the expansion is set
HasEndDate(recurrence_end_type, recurrence_end_value) ==
    recurrence_end_type = "on_date" /\ recurrence_end_value.kind = "date"

\* the horizon test with >= for >
BeyondHorizonInclusive(current_time, utcnow) ==
    current_time >= utcnow + HorizonDays * TicksPerDay

\* the horizon test of the loop
BeyondHorizon(current_time, utcnow) == current_time > utcnow + HorizonDays * TicksPerDay

\* the loop's guard with <= for <
LoopContinuesOneMore(occurrences, max_count) == Len(occurrences) <= max_count

\* the loop's guard
LoopContinues(occurrences, max_count) == Len(occurrences) < max_count

\* the loop stops before appending next: the type is unknown, next is past the
\* end date, or next is past the horizon
LoopBreaks(next, recurrence_type, has_end, end_date, utcnow) ==
    \/ recurrence_type \notin RecurrenceTypes \ {"once"}
    \/ has_end /\ next > end_date
    \/ BeyondHorizon(next, utcnow)

RECURSIVE GenerateLoop(_, _, _, _, _, _, _)
GenerateLoop(occurrences, next, recurrence_type, recurrence_interval, max_count, end, utcnow) ==
    IF LoopContinues(occurrences, max_count)
       /\ ~LoopBreaks(next, recurrence_type, end.has, end.date, utcnow)
    THEN GenerateLoop(Append(occurrences, next),
                      NextOccurrence(next, recurrence_type, recurrence_interval),
                      recurrence_type, recurrence_interval, max_count, end, utcnow)
    ELSE occurrences

\* ReminderService._generate_occurrence_times; utcnow is what datetime.utcnow()
\* returns while it runs
GenerateOccurrenceTimes(start_time, recurrence_type, recurrence_interval, recurrence_end_type, recurrence_end_value, utcnow) ==
    IF recurrence_type = "once" THEN <<start_time>>
    ELSE GenerateLoop(<<start_time>>,
                      NextOccurrence(start_time, recurrence_type, recurrence_interval),
                      recurrence_type, recurrence_interval,
                      MaxCount(recurrence_end_type, recurrence_end_value),
                      IF HasEndDate(recurrence_end_type, recurrence_end_value)
                      THEN [has |-> TRUE, date |-> ParseEndDate(recurrence_end_value)]
                      ELSE [has |-> FALSE, date |-> 0],
                      utcnow)

\* ------------------------------------------------------------ expansion runs

VARIABLES ex

\* the instants and rules the expansion is run on
ExNows == {0, TicksOf(2027, 12, 1, 0)}
ExStarts(utcnow) ==
    {t \in {utcnow + 1, TicksOf(2027, 1, 31, 120), TicksOf(2028, 1, 31, 0),
            TicksOf(2028, 2, 29, 36), utcnow + HorizonDays * TicksPerDay - TicksPerHour,
            utcnow + HorizonDays * TicksPerDay - 1,
            utcnow + (HorizonDays + 1) * TicksPerDay} : t > utcnow}
ExIntervals == {1, 2, 3, 100}
ExOffsets == {0, 5 * TicksPerHour, 0 - 3 * TicksPerHour}
ExEnds(start) ==
    {<<"never", NoValue>>, <<"after_occurrences", NoValue>>, <<"on_date", NoValue>>}
    \cup {<<"after_occurrences", CountValue(n)>> : n \in {1, 3, 100, 150}}
    \cup {<<"on_date", DateValue(d + off, off)>> :
             d \in {start - TicksPerDay, start + 4 * TicksPerDay, start + 4 * TicksPerDay + 2,
                    start + 100 * TicksPerDay},
             off \in ExOffsets}

ExInputs ==
    UNION {UNION {{[utcnow |-> u, start_time |-> s, recurrence_type |-> ty,
                    recurrence_interval |-> k, recurrence_end_type |-> e[1],
                    recurrence_end_value |-> e[2]] :
                      ty \in RecurrenceTypes, k \in ExIntervals, e \in ExEnds(s)} :
                  s \in ExStarts(u)} :
           u \in ExNows}

\* ---------------------------------------------------------------- state

VARIABLES
    now,            \* datetime.utcnow(), in ticks
    running,        \* scheduler.running: start_scheduler has run in this process
    startedAt,      \* the instant of the last scheduler.start()
    swept,          \* the check_missed_reminders job has run at this instant
    restarts,       \* how many times the process stopped
    calls,          \* how many API requests were served
    reminders,      \* the reminders table: id -> row
    nextId,         \* the next fresh uuid4 (reminder ids and series ids)
    jobs,           \* the scheduler's job store: a set of [id, run_date]
    sweep,          \* check_missed_reminders in progress: the rows still to dispatch
    disp,           \* send_reminder_notification in progress, per calling thread
    last,           \* the last API request served and what it returned
    transport,      \* what send_notification does with a message to a token
    deliveries,     \* notification_service.send_notification calls made: <<reminder id, token>> -> count
    triggeredWrites, \* mark_triggered() commits made: reminder id -> count
    pending,        \* create_reminder in progress: the rows flushed and not yet committed
    outbox          \* the messages send_notification was called with

vars == <<ex, now, running, startedAt, swept, restarts, calls, reminders, nextId, jobs,
          sweep, disp, last, transport, deliveries, triggeredWrites, pending, outbox>>

sysvars == <<now, running, startedAt, swept, restarts, calls, reminders, nextId, jobs,
             sweep, disp, last, transport, deliveries, triggeredWrites, pending, outbox>>

\* bounds of the model: the rows ever inserted, the ticks time passes while
\* something is overdue, the stops of the process, the API requests served
MaxRows == 3
MaxDrift == 3
MaxRestarts == 1
MaxCalls == 2

Ids == 1..MaxRows
None == 0

Users == {1, 2}
Notes == {"n1"}
AllTokens == {"a", "b"}

\* db.query(FCMToken).filter(FCMToken.user_id == user_id).all(): user 1 has two
\* registered devices, user 2 has none
FcmTokens(user_id) == IF user_id = 1 THEN <<"a", "b">> ELSE <<>>

Slots == {"timer", "sweep"}

\* the texts of a request: title, notification_title and notification_content
NoteTitle == "Shopping"
NotificationTitle == "Buy milk"
NotificationContent == "Two litres"

\* a Text column that was never assigned
NullText == "NULL"

\* no message made yet
NoMessage == [title |-> "", body |-> ""]

\* the title and body send_reminder_notification passes to send_notification
Notification(row) ==
    [title |-> "⏰ " \o row.title,
     body |-> IF row.description \in {NullText, ""} THEN "Reminder notification"
              ELSE row.description]

\* a call of send_reminder_notification: where it is, the reminder id it was
\* called with, the tokens read, sent_count and failed_count, and the title
\* and body the row it has read gives
Call(pc, rid, todo, sent, failed, msg) ==
    [pc |-> pc, rid |-> rid, todo |-> todo, sent |-> sent, failed |-> failed, msg |-> msg]
Idle == Call("idle", None, <<>>, 0, 0, NoMessage)

\* what one send_notification call can do: return success, return a failure
\* result, raise
Outcomes == {"sent", "failed", "raised"}

\* a transport that accepts every message
Accepting == [k \in AllTokens |-> "sent"]

Null == 0 - 1

\* a field a request leaves out (Optional[...] = None in ReminderUpdate)
Unset == "unset"

\* the last request served: the operation, the authenticated user, the target,
\* the series flag, the ids of the rows it returned or removed, the count it
\* returned, the rows whose _schedule_reminder_task raised while it was served,
\* and whether the lookup by id and owner found a row
Request(op, user_id, reminder_id, series, returned, count, unarmed, found) ==
    [op |-> op, user_id |-> user_id, reminder_id |-> reminder_id, series |-> series,
     returned |-> returned, count |-> count, unarmed |-> unarmed, found |-> found]

\* no request served yet
NoRequest == Request("none", None, None, FALSE, {}, 0, {}, TRUE)

\* the status of the response the endpoint makes of the service's answer
ResponseStatus(req) ==
    IF req.op = "update" THEN (IF req.returned = {} THEN "404" ELSE "200")
    ELSE IF req.op \in {"delete", "get"} THEN (IF req.found THEN "200" ELSE "404")
    ELSE IF req.op = "create" THEN (IF req.found THEN "201" ELSE "500")
    ELSE "200"

\* no create_reminder in progress
NoCreate == [user_id |-> None, rows |-> <<>>, unarmed |-> {}]

\* the inputs the API operations are run on
CreateTimes == {1}
CreateRules ==
    {<<1, "once", "never", NoValue>>, <<2, "once", "never", NoValue>>,
     <<1, "hourly", "after_occurrences", CountValue(3)>>}
CreateIntervals == {1}
\* the _schedule_reminder_task calls of one request that raise, by the
\* occurrence number of the row armed: none, one inside a series, all
ArmFailures == {{}, {2}, 1..MaxRows}

\* the fields of an update request: <<reminder_time, recurrence_type>>
UpdateFields == {<<14, Unset>>, <<Null, "once">>, <<Null, "hourly">>}
SyncUsers == {1}
SyncTimes == {0}
SyncOccurrences == {1}

\* ------------------------------------------------------------ the tables

Rows == DOMAIN reminders

\* a lookup by id alone
OwnedByAnyone(reminder_id, user_id) ==
    reminder_id \in Rows

\* the lookup by id and owner that update, delete and get start with
Owned(reminder_id, user_id) ==
    reminder_id \in Rows /\ reminders[reminder_id].user_id = user_id

\* Reminder(...) as create_reminder and sync_reminders construct it, after flush
NewReminder(user_id, note_uuid, reminder_time, recurrence_type, occurrence_number, series_id, parent_reminder_id) ==
    [user_id |-> user_id, note_uuid |-> note_uuid, reminder_time |-> reminder_time,
     recurrence_type |-> recurrence_type, occurrence_number |-> occurrence_number,
     series_id |-> series_id, parent_reminder_id |-> parent_reminder_id,
     is_triggered |-> FALSE, triggered_at |-> Null, celery_task_id |-> None,
     updated_at |-> now, title |-> NoteTitle, notification_title |-> NotificationTitle,
     notification_content |-> NotificationContent, description |-> NullText]

\* Reminder.mark_triggered
MarkTriggered(row) ==
    [row EXCEPT !.is_triggered = TRUE, !.triggered_at = now, !.updated_at = now]

\* scheduler.add_job(..., id=f"reminder_{reminder_id}", replace_existing=True)
ScheduleReminder(js, reminder_id, reminder_time) ==
    {j \in js : j.id # reminder_id} \cup {[id |-> reminder_id, run_date |-> reminder_time]}

\* remove_job with the JobLookupError of a missing job taking the store down
CancelReminderLosesStore(js, job_id) ==
    IF \A j \in js : j.id # job_id THEN {} ELSE {j \in js : j.id # job_id}

\* scheduler.remove_job(job_id), a missing job's JobLookupError swallowed
CancelReminder(js, job_id) == {j \in js : j.id # job_id}

\* the due-set query with its comparison reversed
MissedRemindersReversed ==
    {r \in Rows : ~reminders[r].is_triggered /\ reminders[r].reminder_time >= now}

\* the rows of the due-set query of check_missed_reminders
MissedReminders ==
    {r \in Rows : ~reminders[r].is_triggered /\ reminders[r].reminder_time <= now}

\* a set of ids as a sequence in ascending order
RECURSIVE SeqOf(_)
SeqOf(S) ==
    IF S = {} THEN <<>>
    ELSE LET m == CHOOSE x \in S : \A y \in S : x <= y
         IN <<m>> \o SeqOf(S \ {m})

\* ------------------------------------------------------------- create

\* series_id and parent_reminder_id of the idx-th occurrence (idx from 0) of a
\* create whose first row gets the id anchor; fresh is the uuid4 drawn
SeriesIdOf(recurrence_type, fresh) == IF recurrence_type # "once" THEN fresh ELSE None
ParentIdOf(idx, anchor) == IF idx = 0 THEN None ELSE anchor

\* the rows of a create that stores a handle on every row, armed or not
CreatedRowsAllHandled(user_id, note_uuid, times, recurrence_type, unarmed) ==
    [i \in nextId..(nextId + Len(times) - 1) |->
        [NewReminder(user_id, note_uuid, times[i - nextId + 1], recurrence_type,
                     i - nextId + 1, SeriesIdOf(recurrence_type, nextId),
                     ParentIdOf(i - nextId, nextId))
         EXCEPT !.celery_task_id = i]]

\* the rows create_reminder adds, each with the job id schedule_reminder
\* returned; unarmed are the occurrence numbers whose _schedule_reminder_task
\* raised, which leaves their celery_task_id unset
CreatedRows(user_id, note_uuid, times, recurrence_type, unarmed) ==
    [i \in nextId..(nextId + Len(times) - 1) |->
        [NewReminder(user_id, note_uuid, times[i - nextId + 1], recurrence_type,
                     i - nextId + 1, SeriesIdOf(recurrence_type, nextId),
                     ParentIdOf(i - nextId, nextId))
         EXCEPT !.celery_task_id = IF (i - nextId + 1) \in unarmed THEN None ELSE i]]

\* js after schedule_reminder for every row of rows
RECURSIVE ScheduleAll(_, _, _)
ScheduleAll(js, rows, todo) ==
    IF todo = {} THEN js
    ELSE LET r == CHOOSE x \in todo : TRUE
         IN ScheduleAll(ScheduleReminder(js, r, rows[r].reminder_time), rows, todo \ {r})

CreateReminder(user_id, note_uuid, reminder_time, recurrence_type, recurrence_interval, recurrence_end_type, recurrence_end_value, unarmed) ==
    /\ calls < MaxCalls
    /\ calls' = calls + 1
    /\ reminder_time > now                      \* ReminderCreate.validate_future_time
    /\ LET times == GenerateOccurrenceTimes(reminder_time, recurrence_type,
                                            recurrence_interval, recurrence_end_type,
                                            recurrence_end_value, now)
           rows == CreatedRows(user_id, note_uuid, times, recurrence_type, unarmed)
       IN /\ nextId + Len(times) - 1 <= MaxRows
          /\ reminders' = rows @@ reminders
          /\ jobs' = ScheduleAll(jobs, rows,
                                  {r \in DOMAIN rows : rows[r].occurrence_number \notin unarmed})
          /\ nextId' = nextId + Len(times)
          /\ last' = Request("create", user_id, None, FALSE, DOMAIN rows, Len(times),
                              {r \in DOMAIN rows : rows[r].occurrence_number \in unarmed}, TRUE)
    /\ UNCHANGED <<ex, pending, outbox, transport, now, running, startedAt, swept, restarts, sweep, disp,
                   deliveries, triggeredWrites>>

\* create_reminder up to its commit: every row is added and flushed, and its
\* date job is added to the store, within the transaction of the request
CreateFlushAndArm(user_id, note_uuid, reminder_time, recurrence_type, recurrence_interval, recurrence_end_type, recurrence_end_value, unarmed) ==
    /\ calls < MaxCalls
    /\ calls' = calls + 1
    /\ DOMAIN pending.rows = {}
    /\ reminder_time > now                      \* ReminderCreate.validate_future_time
    /\ LET times == GenerateOccurrenceTimes(reminder_time, recurrence_type,
                                            recurrence_interval, recurrence_end_type,
                                            recurrence_end_value, now)
           rows == CreatedRows(user_id, note_uuid, times, recurrence_type, unarmed)
       IN /\ nextId + Len(times) - 1 <= MaxRows
          /\ pending' = [user_id |-> user_id, rows |-> rows,
                          unarmed |-> {r \in DOMAIN rows : rows[r].occurrence_number \in unarmed}]
          /\ jobs' = ScheduleAll(jobs, rows,
                                  {r \in DOMAIN rows : rows[r].occurrence_number \notin unarmed})
          /\ nextId' = nextId + Len(times)
    /\ UNCHANGED <<ex, outbox, transport, now, running, startedAt, swept, restarts, sweep,
                   disp, deliveries, triggeredWrites, reminders, last>>

\* self.db.commit() of create_reminder: the rows become visible to the other
\* sessions; when it raises the request is answered 500 and the session is
\* closed, which rolls the rows back
CreateCommit(committed) ==
    /\ DOMAIN pending.rows # {}
    /\ IF committed
       THEN /\ reminders' = pending.rows @@ reminders
            /\ last' = Request("create", pending.user_id, None, FALSE, DOMAIN pending.rows,
                                Cardinality(DOMAIN pending.rows), pending.unarmed, TRUE)
       ELSE /\ reminders' = reminders
            /\ last' = Request("create", pending.user_id, None, FALSE, {}, 0, {}, FALSE)
    /\ pending' = NoCreate
    /\ UNCHANGED <<ex, outbox, transport, now, running, startedAt, swept, restarts, sweep,
                   disp, deliveries, triggeredWrites, calls, nextId, jobs>>

\* ------------------------------------------------------------- update

\* a selection that takes the triggered occurrences of the series too
RowsToUpdateWholeSeries(reminder_id, user_id, update_series) ==
    IF update_series /\ reminders[reminder_id].series_id # None
    THEN {r \in Rows : /\ reminders[r].user_id = user_id
                       /\ reminders[r].series_id = reminders[reminder_id].series_id}
    ELSE {reminder_id}

\* reminders_to_update of update_reminder
RowsToUpdate(reminder_id, user_id, update_series) ==
    IF update_series /\ reminders[reminder_id].series_id # None
    THEN {r \in Rows : /\ reminders[r].user_id = user_id
                       /\ reminders[r].series_id = reminders[reminder_id].series_id
                       /\ ~reminders[r].is_triggered}
    ELSE {reminder_id}

\* time_changed and not rem.is_triggered
Reschedules(row, reminder_time) ==
    reminder_time # Null /\ reminder_time # row.reminder_time /\ ~row.is_triggered

\* one row after the loop body of update_reminder; reminder_time is Null and
\* recurrence_type is Unset when the request leaves them out; armed is whether
\* _schedule_reminder_task returned
UpdatedRow(row, id, reminder_time, recurrence_type, armed) ==
    LET timed == IF reminder_time # Null THEN [row EXCEPT !.reminder_time = reminder_time]
                 ELSE row
        typed == IF recurrence_type # Unset
                 THEN [timed EXCEPT !.recurrence_type = recurrence_type]
                 ELSE timed
        handled == IF Reschedules(row, reminder_time) /\ armed
                   THEN [typed EXCEPT !.celery_task_id = id]
                   ELSE typed
    IN IF handled # row THEN [handled EXCEPT !.updated_at = now] ELSE row

\* rescheduling that arms the new timer and leaves the old one in the store
RECURSIVE RescheduleAllKeepsOld(_, _, _, _)
RescheduleAllKeepsOld(js, todo, reminder_time, unarmed) ==
    IF todo = {} THEN js
    ELSE LET r == CHOOSE x \in todo : TRUE
         IN RescheduleAllKeepsOld(
                IF Reschedules(reminders[r], reminder_time)
                   /\ reminders[r].occurrence_number \notin unarmed
                THEN js \cup {[id |-> r, run_date |-> reminder_time]} ELSE js,
                todo \ {r}, reminder_time, unarmed)

\* js after the cancel and schedule calls of the loop of update_reminder; unarmed
\* are the occurrence numbers whose _schedule_reminder_task raises
RECURSIVE RescheduleAll(_, _, _, _)
RescheduleAll(js, todo, reminder_time, unarmed) ==
    IF todo = {} THEN js
    ELSE LET r == CHOOSE x \in todo : TRUE
             cancelled == IF reminders[r].celery_task_id # None
                          THEN CancelReminder(js, reminders[r].celery_task_id) ELSE js
             scheduled == IF reminders[r].occurrence_number \in unarmed THEN cancelled
                          ELSE ScheduleReminder(cancelled, r, reminder_time)
         IN RescheduleAll(IF Reschedules(reminders[r], reminder_time) THEN scheduled ELSE js,
                          todo \ {r}, reminder_time, unarmed)

UpdateReminder(reminder_id, user_id, reminder_time, recurrence_type, update_series, unarmed) ==
    /\ calls < MaxCalls
    /\ calls' = calls + 1
    /\ reminder_time # Null => reminder_time > now     \* ReminderUpdate.validate_future_time
    /\ IF Owned(reminder_id, user_id)
       THEN LET todo == RowsToUpdate(reminder_id, user_id, update_series)
            IN /\ reminders' = [r \in Rows |->
                                  IF r \in todo
                                  THEN UpdatedRow(reminders[r], r, reminder_time,
                                                  recurrence_type,
                                                  reminders[r].occurrence_number \notin unarmed)
                                  ELSE reminders[r]]
               /\ jobs' = RescheduleAll(jobs, todo, reminder_time, unarmed)
               /\ last' = Request("update", user_id, reminder_id, update_series, todo,
                                   Cardinality(todo),
                                   {r \in todo : /\ Reschedules(reminders[r], reminder_time)
                                                 /\ reminders[r].occurrence_number \in unarmed},
                                   TRUE)
       ELSE /\ last' = Request("update", user_id, reminder_id, update_series, {}, 0, {}, FALSE)
            /\ UNCHANGED <<reminders, jobs>>
    /\ UNCHANGED <<ex, pending, outbox, transport, now, running, startedAt, swept, restarts, nextId, sweep, disp,
                   deliveries, triggeredWrites>>

\* ------------------------------------------------------------- delete

\* reminders_to_delete of delete_reminder
RowsToDelete(reminder_id, user_id, delete_series) ==
    IF delete_series /\ reminders[reminder_id].series_id # None
    THEN {r \in Rows : /\ reminders[r].user_id = user_id
                       /\ reminders[r].series_id = reminders[reminder_id].series_id}
    ELSE {reminder_id}

\* a row that stays when session.delete() removes gone: the occurrences
\* relationship (the backref of parent, no delete cascade, no passive_deletes)
\* has the unit of work set the children's parent_reminder_id to NULL before the
\* parent's DELETE
AfterParentDelete(row, gone) ==
    IF row.parent_reminder_id \in gone
    THEN [row EXCEPT !.parent_reminder_id = None, !.updated_at = now]
    ELSE row

RECURSIVE CancelAll(_, _)
CancelAll(js, todo) ==
    IF todo = {} THEN js
    ELSE LET r == CHOOSE x \in todo : TRUE
         IN CancelAll(IF reminders[r].celery_task_id # None /\ ~reminders[r].is_triggered
                      THEN CancelReminder(js, reminders[r].celery_task_id) ELSE js,
                      todo \ {r})

DeleteReminder(reminder_id, user_id, delete_series) ==
    /\ calls < MaxCalls
    /\ calls' = calls + 1
    /\ IF Owned(reminder_id, user_id)
       THEN LET gone == RowsToDelete(reminder_id, user_id, delete_series)
            IN /\ reminders' = [r \in Rows \ gone |-> AfterParentDelete(reminders[r], gone)]
               /\ jobs' = CancelAll(jobs, gone)
               /\ last' = Request("delete", user_id, reminder_id, delete_series, gone,
                                   Cardinality(gone), {}, TRUE)
       ELSE /\ last' = Request("delete", user_id, reminder_id, delete_series, {}, 0, {}, FALSE)
            /\ UNCHANGED <<reminders, jobs>>
    /\ UNCHANGED <<ex, pending, outbox, transport, now, running, startedAt, swept, restarts, nextId, sweep, disp,
                   deliveries, triggeredWrites>>

\* ---------------------------------------------------------------- read

\* get_reminder: the row of that id of that owner, or None
GetReminder(reminder_id, user_id) ==
    /\ calls < MaxCalls
    /\ calls' = calls + 1
    /\ last' = Request("get", user_id, reminder_id, FALSE,
                        IF Owned(reminder_id, user_id) THEN {reminder_id} ELSE {},
                        IF Owned(reminder_id, user_id) THEN 1 ELSE 0, {},
                        Owned(reminder_id, user_id))
    /\ UNCHANGED <<ex, pending, outbox, transport, now, running, startedAt, swept, restarts, reminders, nextId,
                   jobs, sweep, disp, deliveries, triggeredWrites>>

\* the rows get_user_reminders returns
UserReminders(user_id, include_triggered) ==
    {r \in Rows : /\ reminders[r].user_id = user_id
                  /\ include_triggered \/ ~reminders[r].is_triggered}

\* get_user_reminders
GetUserReminders(user_id, include_triggered) ==
    /\ calls < MaxCalls
    /\ calls' = calls + 1
    /\ last' = Request("list", user_id, None, FALSE, UserReminders(user_id, include_triggered),
                        Cardinality(UserReminders(user_id, include_triggered)), {}, TRUE)
    /\ UNCHANGED <<ex, pending, outbox, transport, now, running, startedAt, swept, restarts, reminders, nextId,
                   jobs, sweep, disp, deliveries, triggeredWrites>>

\* --------------------------------------------------------------- sync

\* the rows the lookup of sync_reminders matches; .first() returns any of them
SyncMatches(user_id, note_uuid, occurrence_number) ==
    {r \in Rows : /\ reminders[r].user_id = user_id
                  /\ reminders[r].note_uuid = note_uuid
                  /\ reminders[r].occurrence_number = occurrence_number}

\* an overwrite that also resets the trigger state of the row
SyncedRowResets(row, reminder_time, recurrence_type, series_id) ==
    [row EXCEPT !.reminder_time = reminder_time, !.recurrence_type = recurrence_type,
                !.series_id = IF series_id # None THEN series_id ELSE @,
                !.is_triggered = FALSE, !.triggered_at = Null, !.updated_at = now]

\* the existing row after sync_reminders has overwritten it
SyncedRow(row, reminder_time, recurrence_type, series_id) ==
    LET set == [row EXCEPT !.reminder_time = reminder_time,
                           !.recurrence_type = recurrence_type,
                           !.series_id = IF series_id # None THEN series_id ELSE @]
    IN IF set # row THEN [set EXCEPT !.updated_at = now] ELSE row

\* sync_reminders with one item; armed is whether _schedule_reminder_task
\* returned for a new row
SyncReminders(user_id, note_uuid, occurrence_number, reminder_time, recurrence_type, series_id, armed) ==
    /\ calls < MaxCalls
    /\ calls' = calls + 1
    /\ LET found == SyncMatches(user_id, note_uuid, occurrence_number)
       IN IF found # {}
          THEN /\ armed
               /\ \E existing \in found :
                     /\ reminders' = [reminders EXCEPT ![existing] =
                                         SyncedRow(@, reminder_time, recurrence_type, series_id)]
                     /\ last' = Request("sync", user_id, existing, FALSE, {existing}, 1, {}, TRUE)
               /\ UNCHANGED <<jobs, nextId>>
          ELSE /\ nextId <= MaxRows
               /\ reminders' = (nextId :> [NewReminder(user_id, note_uuid, reminder_time,
                                                       recurrence_type, occurrence_number,
                                                       series_id, None)
                                           EXCEPT !.celery_task_id =
                                               IF armed THEN nextId ELSE None]) @@ reminders
               /\ jobs' = IF armed THEN ScheduleReminder(jobs, nextId, reminder_time) ELSE jobs
               /\ nextId' = nextId + 1
               /\ last' = Request("sync", user_id, nextId, FALSE, {nextId}, 1,
                                   IF armed THEN {} ELSE {nextId}, TRUE)
    /\ UNCHANGED <<ex, pending, outbox, transport, now, running, startedAt, swept, restarts, sweep, disp,
                   deliveries, triggeredWrites>>

\* --------------------------------------------------------- the dispatcher

\* a test that lets a triggered occurrence through
SkipsMissingOnly(rid) == rid \notin Rows

\* a call that returns without the triggered write when no token is registered
AfterTokenQueryEmptyReturns(tokens) == IF tokens = <<>> THEN "idle" ELSE "send"

\* the test send_reminder_notification returns on without doing anything: the
\* row is missing or already triggered
Skips(rid) == rid \notin Rows \/ reminders[rid].is_triggered

\* where the call goes after the token query: with no token it marks the row
\* and returns, otherwise it enters the loop
AfterTokenQuery(tokens) == IF tokens = <<>> THEN "mark" ELSE "send"

\* send_reminder_notification up to the token query: the row is read, and the
\* call returns when it is missing or already triggered
DispatchLoad(slot) ==
    /\ disp[slot].pc = "load"
    /\ LET rid == disp[slot].rid
       IN IF Skips(rid)
          THEN disp' = [disp EXCEPT ![slot] = Idle]
          ELSE LET tokens == FcmTokens(reminders[rid].user_id)
               IN disp' = [disp EXCEPT ![slot] =
                              Call(AfterTokenQuery(tokens), rid, tokens, 0, 0,
                                   Notification(reminders[rid]))]
    /\ UNCHANGED <<ex, pending, outbox, transport, now, running, startedAt, swept, restarts, calls, reminders,
                   nextId,
                   last, jobs, sweep, deliveries, triggeredWrites>>

\* the tokens of a sequence
Range(q) == {q[i] : i \in 1..Len(q)}

\* the result of the loop before its first iteration
NoAttempts == [attempted |-> <<>>, sent |-> 0, failed |-> 0]

\* the loop result after one more send_notification call, to the token k
Attempt(acc, k, outcome) ==
    [attempted |-> Append(acc.attempted, k),
     sent |-> acc.sent + (IF outcome = "sent" THEN 1 ELSE 0),
     failed |-> acc.failed + (IF outcome = "sent" THEN 0 ELSE 1)]

\* a loop that a raising send_notification call ends
RECURSIVE FanOutStopsOnRaise(_, _, _)
FanOutStopsOnRaise(todo, tr, acc) ==
    IF todo = <<>> THEN acc
    ELSE IF tr[Head(todo)] = "raised" THEN Attempt(acc, Head(todo), "raised")
    ELSE FanOutStopsOnRaise(Tail(todo), tr, Attempt(acc, Head(todo), tr[Head(todo)]))

\* the loop over fcm_tokens: each iteration calls send_notification inside its
\* own try/except and counts the outcome
RECURSIVE FanOut(_, _, _)
FanOut(todo, tr, acc) ==
    IF todo = <<>> THEN acc
    ELSE FanOut(Tail(todo), tr, Attempt(acc, Head(todo), tr[Head(todo)]))

\* the loop over fcm_tokens: one send_notification call per token read
DispatchSend(slot) ==
    /\ disp[slot].pc = "send"
    /\ LET rid == disp[slot].rid
           out == FanOut(disp[slot].todo, transport, NoAttempts)
       IN /\ deliveries' = [p \in DOMAIN deliveries |->
                               IF p[1] = rid /\ p[2] \in Range(out.attempted)
                               THEN deliveries[p] + 1
                               ELSE deliveries[p]]
          /\ outbox' = outbox \cup {[reminder_id |-> rid, fcm_token |-> k,
                                      title |-> disp[slot].msg.title,
                                      body |-> disp[slot].msg.body] :
                                         k \in Range(out.attempted)}
          /\ disp' = [disp EXCEPT ![slot] =
                         Call("mark", rid, <<>>, out.sent, out.failed, disp[slot].msg)]
    /\ UNCHANGED <<ex, pending, transport, now, running, startedAt, swept, restarts, calls, reminders,
                   nextId,
                   last, jobs, sweep, triggeredWrites>>

\* reminder.mark_triggered(); db.commit(): the UPDATE of the row read at the
\* start; when the row is gone the flush raises and the call rolls back, as it
\* does when the commit raises (committed is FALSE)
DispatchMark(slot, committed) ==
    /\ disp[slot].pc = "mark"
    /\ LET rid == disp[slot].rid
       IN IF rid \in Rows /\ committed
          THEN /\ reminders' = [reminders EXCEPT ![rid] = MarkTriggered(@)]
               /\ triggeredWrites' = [triggeredWrites EXCEPT ![rid] = @ + 1]
          ELSE UNCHANGED <<reminders, triggeredWrites>>
    /\ disp' = [disp EXCEPT ![slot] = Idle]
    /\ UNCHANGED <<ex, pending, outbox, transport, last, calls, now, running, startedAt, swept, restarts,
                   nextId, jobs, sweep,
                   deliveries>>

\* ------------------------------------------------------- the scheduler

\* the interval job check_missed_reminders is due: minutes=5 after start
SweepDue ==
    /\ running
    /\ now >= startedAt + SweepInterval
    /\ (now - startedAt) % SweepInterval = 0
    /\ ~swept

\* a date job runs: at its run_date, or late by at most misfire_grace_time
TimerFire(job) ==
    /\ running
    /\ job \in jobs
    /\ job.run_date <= now /\ now <= job.run_date + MisfireGrace
    /\ disp["timer"] = Idle
    /\ jobs' = jobs \ {job}
    /\ disp' = [disp EXCEPT !["timer"] = Call("load", job.id, <<>>, 0, 0, NoMessage)]
    /\ UNCHANGED <<ex, pending, outbox, transport, last, now, running, startedAt, swept, restarts, calls,
                   reminders, nextId,
                   sweep, deliveries, triggeredWrites>>

\* a date job later than misfire_grace_time is dropped without running
TimerMisfire(job) ==
    /\ running
    /\ job \in jobs
    /\ now > job.run_date + MisfireGrace
    /\ jobs' = jobs \ {job}
    /\ UNCHANGED <<ex, pending, outbox, transport, last, now, running, startedAt, swept, restarts, calls,
                   reminders, nextId,
                   sweep, disp, deliveries, triggeredWrites>>

\* check_missed_reminders: the due-set query
SweepStart ==
    /\ SweepDue
    /\ sweep = <<>> /\ disp["sweep"] = Idle
    /\ swept' = TRUE
    /\ sweep' = SeqOf(MissedReminders)
    /\ UNCHANGED <<ex, pending, outbox, transport, last, now, running, startedAt, restarts, calls, reminders,
                   nextId, jobs, disp,
                   deliveries, triggeredWrites>>

\* check_missed_reminders: one iteration of the loop over missed_reminders
SweepDispatch ==
    /\ sweep # <<>> /\ disp["sweep"] = Idle
    /\ disp' = [disp EXCEPT !["sweep"] = Call("load", Head(sweep), <<>>, 0, 0, NoMessage)]
    /\ sweep' = Tail(sweep)
    /\ UNCHANGED <<ex, pending, outbox, transport, last, now, running, startedAt, swept, restarts, calls,
                   reminders, nextId,
                   jobs, deliveries, triggeredWrites>>

\* start_scheduler
StartScheduler ==
    /\ ~running
    /\ running' = TRUE
    /\ startedAt' = now
    /\ swept' = FALSE
    /\ UNCHANGED <<ex, pending, outbox, transport, last, now, restarts, calls, reminders, nextId, jobs, sweep,
                   disp, deliveries,
                   triggeredWrites>>

\* the process stops: the in-memory job store and the running calls are lost
StopProcess ==
    /\ running
    /\ restarts < MaxRestarts
    /\ restarts' = restarts + 1
    /\ running' = FALSE
    /\ jobs' = {}
    /\ sweep' = <<>>
    /\ disp' = [s \in Slots |-> Idle]
    /\ UNCHANGED <<ex, pending, outbox, transport, last, calls, now, startedAt, swept, reminders, nextId, deliveries,
                   triggeredWrites>>

\* ---------------------------------------------------------------- time

Quiet == sweep = <<>> /\ \A s \in Slots : disp[s] = Idle

\* the instants something is pending at: an untriggered row is due, a job runs
Events ==
    {reminders[r].reminder_time : r \in {x \in Rows : ~reminders[x].is_triggered}}
    \cup {j.run_date : j \in jobs}

\* the instants time advances to: the next tick, while something is pending since
\* at most MaxDrift ticks, or the next instant something is pending at
TickTargets ==
    {t \in {now + 1} : \E e \in Events : e <= now /\ t <= e + MaxDrift}
    \cup {e \in Events : e > now /\ \A f \in Events : f > now => e <= f}

\* time passes while no call is running and no sweep is due; a scheduler that is
\* running passes over instants only when their sweeps would find nothing due
Tick(t) ==
    /\ Quiet
    /\ ~SweepDue
    /\ t \in TickTargets
    /\ (running /\ t > now + 1) => MissedReminders = {}
    /\ now' = t
    /\ swept' = FALSE
    /\ UNCHANGED <<ex, pending, outbox, transport, last, running, startedAt, restarts, calls, reminders,
                   nextId, jobs,
                   sweep, disp, deliveries, triggeredWrites>>

\* ------------------------------------------------------- specifications

Init ==
    /\ ex = [phase |-> "none"]
    /\ now = 0
    /\ running = FALSE
    /\ startedAt = 0
    /\ swept = FALSE
    /\ restarts = 0
    /\ calls = 0
    /\ reminders = <<>>
    /\ nextId = 1
    /\ jobs = {}
    /\ sweep = <<>>
    /\ disp = [s \in Slots |-> Idle]
    /\ last = NoRequest
    /\ transport = Accepting
    /\ deliveries = [p \in Ids \X AllTokens |-> 0]
    /\ triggeredWrites = [r \in Ids |-> 0]
    /\ pending = NoCreate
    /\ outbox = {}

Next ==
    \/ \E n \in Notes, t \in CreateTimes, rule \in CreateRules, k \in CreateIntervals,
          unarmed \in ArmFailures :
          CreateReminder(rule[1], n, t, rule[2], k, rule[3], rule[4], unarmed)
    \/ \E r \in Ids, u \in Users, f \in UpdateFields, series \in BOOLEAN,
          unarmed \in ArmFailures :
          UpdateReminder(r, u, f[1], f[2], series, unarmed)
    \/ \E r \in Ids, u \in Users, series \in BOOLEAN : DeleteReminder(r, u, series)
    \/ \E u \in SyncUsers, n \in Notes, o \in SyncOccurrences, t \in SyncTimes :
          \E armed \in BOOLEAN : SyncReminders(u, n, o, t, "once", None, armed)
    \/ \E s \in Slots : DispatchLoad(s)
    \/ \E s \in Slots : DispatchSend(s)
    \/ \E s \in Slots : DispatchMark(s, TRUE)
    \/ \E j \in jobs : TimerFire(j)
    \/ \E j \in jobs : TimerMisfire(j)
    \/ SweepStart
    \/ SweepDispatch
    \/ StartScheduler
    \/ StopProcess
    \/ \E t \in TickTargets : Tick(t)

Spec == Init /\ [][Next]_vars

\* the expansion alone: a rule is drawn, _generate_occurrence_times is run on it
InitExpand ==
    /\ ex \in {[phase |-> "in", input |-> i, result |-> <<>>] : i \in ExInputs}
    /\ now = 0
    /\ running = FALSE
    /\ startedAt = 0
    /\ swept = FALSE
    /\ restarts = 0
    /\ calls = 0
    /\ reminders = <<>>
    /\ nextId = 1
    /\ jobs = {}
    /\ sweep = <<>>
    /\ disp = [s \in Slots |-> Idle]
    /\ last = NoRequest
    /\ transport = Accepting
    /\ deliveries = [p \in Ids \X AllTokens |-> 0]
    /\ triggeredWrites = [r \in Ids |-> 0]
    /\ pending = NoCreate
    /\ outbox = {}

Expand ==
    /\ ex.phase = "in"
    /\ ex' = [ex EXCEPT !.phase = "out",
                        !.result = GenerateOccurrenceTimes(
                            ex.input.start_time, ex.input.recurrence_type,
                            ex.input.recurrence_interval, ex.input.recurrence_end_type,
                            ex.input.recurrence_end_value, ex.input.utcnow)]
    /\ UNCHANGED sysvars

NextExpand == Expand

SpecExpand == InitExpand /\ [][NextExpand]_vars

\* the API on a table that holds rows of two owners: the state after user 1 has
\* created an hourly series of two occurrences, user 2 a one-time reminder, all
\* timers were armed and the scheduler was started
TableTimes == <<1, 1 + TicksPerHour, 1>>
TableRows ==
    [i \in 1..3 |->
        [NewReminder(IF i = 3 THEN 2 ELSE 1, "n1", TableTimes[i],
                     IF i = 3 THEN "once" ELSE "hourly", IF i = 3 THEN 1 ELSE i,
                     SeriesIdOf(IF i = 3 THEN "once" ELSE "hourly", 1),
                     IF i = 2 THEN 1 ELSE None)
         EXCEPT !.celery_task_id = i, !.updated_at = 0]]

InitTable ==
    /\ ex = [phase |-> "none"]
    /\ now = 0
    /\ running = TRUE
    /\ startedAt = 0
    /\ swept = FALSE
    /\ restarts = 0
    /\ calls = 0
    /\ reminders = TableRows
    /\ nextId = 4
    /\ jobs = {[id |-> i, run_date |-> TableTimes[i]] : i \in 1..3}
    /\ sweep = <<>>
    /\ disp = [s \in Slots |-> Idle]
    /\ last = NoRequest
    /\ transport = Accepting
    /\ deliveries = [p \in Ids \X AllTokens |-> 0]
    /\ triggeredWrites = [r \in Ids |-> 0]
    /\ pending = NoCreate
    /\ outbox = {}

NextTable ==
    \/ \E r \in Ids, u \in Users, f \in UpdateFields, series \in BOOLEAN,
          unarmed \in ArmFailures :
          UpdateReminder(r, u, f[1], f[2], series, unarmed)
    \/ \E r \in Ids, u \in Users, series \in BOOLEAN : DeleteReminder(r, u, series)
    \/ \E r \in Ids, u \in Users : GetReminder(r, u)
    \/ \E u \in Users, include_triggered \in BOOLEAN : GetUserReminders(u, include_triggered)
    \/ \E s \in Slots : DispatchLoad(s)
    \/ \E s \in Slots : DispatchSend(s)
    \/ \E s \in Slots : DispatchMark(s, TRUE)
    \/ \E j \in jobs : TimerFire(j)
    \/ SweepStart
    \/ SweepDispatch
    \/ \E t \in TickTargets : Tick(t)

SpecTable == InitTable /\ [][NextTable]_vars

\* the dispatcher on the same table over a transport that, per token, accepts
\* the message, answers with a failure or raises
InitFanout ==
    /\ ex = [phase |-> "none"]
    /\ now = 0
    /\ running = TRUE
    /\ startedAt = 0
    /\ swept = FALSE
    /\ restarts = 0
    /\ calls = 0
    /\ reminders = TableRows
    /\ nextId = 4
    /\ jobs = {[id |-> i, run_date |-> TableTimes[i]] : i \in 1..3}
    /\ sweep = <<>>
    /\ disp = [s \in Slots |-> Idle]
    /\ last = NoRequest
    /\ transport \in [AllTokens -> Outcomes]
    /\ deliveries = [p \in Ids \X AllTokens |-> 0]
    /\ triggeredWrites = [r \in Ids |-> 0]
    /\ pending = NoCreate
    /\ outbox = {}

NextFanout ==
    \/ \E s \in Slots : DispatchLoad(s)
    \/ \E s \in Slots : DispatchSend(s)
    \/ \E s \in Slots : DispatchMark(s, TRUE)
    \/ \E j \in jobs : TimerFire(j)
    \/ SweepStart
    \/ SweepDispatch
    \/ \E t \in TickTargets : Tick(t)

SpecFanout == InitFanout /\ [][NextFanout]_vars

\* the sweep alone, after a restart that took every timer: each call of the
\* dispatcher is made by the loop of check_missed_reminders, one after the
\* other, and the commit of the triggered write may raise
InitRetry ==
    /\ ex = [phase |-> "none"]
    /\ now = 0
    /\ running = TRUE
    /\ startedAt = 0
    /\ swept = FALSE
    /\ restarts = 0
    /\ calls = 0
    /\ reminders = TableRows
    /\ nextId = 4
    /\ jobs = {}
    /\ sweep = <<>>
    /\ disp = [s \in Slots |-> Idle]
    /\ last = NoRequest
    /\ transport \in [AllTokens -> Outcomes]
    /\ deliveries = [p \in Ids \X AllTokens |-> 0]
    /\ triggeredWrites = [r \in Ids |-> 0]
    /\ pending = NoCreate
    /\ outbox = {}

NextRetry ==
    \/ DispatchLoad("sweep")
    \/ DispatchSend("sweep")
    \/ \E committed \in BOOLEAN : DispatchMark("sweep", committed)
    \/ SweepStart
    \/ SweepDispatch
    \/ \E t \in TickTargets : Tick(t)

SpecRetry == InitRetry /\ [][NextRetry]_vars

\* create_reminder step by step on an empty table, the scheduler running:
\* jobs can run, and the instant can change, between the arming of a row and
\* the commit, and the commit may raise
InitCreate ==
    /\ ex = [phase |-> "none"]
    /\ now = 0
    /\ running = TRUE
    /\ startedAt = 0
    /\ swept = FALSE
    /\ restarts = 0
    /\ calls = 0
    /\ reminders = <<>>
    /\ nextId = 1
    /\ jobs = {}
    /\ sweep = <<>>
    /\ disp = [s \in Slots |-> Idle]
    /\ last = NoRequest
    /\ transport = Accepting
    /\ deliveries = [p \in Ids \X AllTokens |-> 0]
    /\ triggeredWrites = [r \in Ids |-> 0]
    /\ pending = NoCreate
    /\ outbox = {}

NextCreate ==
    \/ \E n \in Notes, t \in CreateTimes, rule \in CreateRules, k \in CreateIntervals,
          unarmed \in ArmFailures :
          CreateFlushAndArm(rule[1], n, t, rule[2], k, rule[3], rule[4], unarmed)
    \/ \E committed \in BOOLEAN : CreateCommit(committed)
    \/ \E s \in Slots : DispatchLoad(s)
    \/ \E s \in Slots : DispatchSend(s)
    \/ \E s \in Slots : DispatchMark(s, TRUE)
    \/ \E j \in jobs : TimerFire(j)
    \/ SweepStart
    \/ SweepDispatch
    \/ \E t \in TickTargets : Tick(t)

SpecCreate == InitCreate /\ [][NextCreate]_vars

\* ------------------------------------------------- properties of the system

\* C1: while the process has not been stopped, whatever the interleaving of the
\* dispatcher calls made on one occurrence (its timer firing, the sweep
\* dispatching it), triggered_at is written at most once and each of the owner's
\* endpoints is sent at most one notification for it
ExactlyOnce ==
    restarts = 0 =>
        \A r \in Ids : /\ triggeredWrites[r] <= 1
                       /\ \A k \in AllTokens : deliveries[<<r, k>>] <= 1

RecoveryOrigin(r) ==
    LET written == IF reminders[r].updated_at > reminders[r].reminder_time
                   THEN reminders[r].updated_at ELSE reminders[r].reminder_time
    IN IF startedAt > written THEN startedAt ELSE written

TriggeredMonotonic ==
    [][\A r \in Rows : (reminders[r].is_triggered /\ r \in DOMAIN reminders')
                           => reminders'[r].is_triggered]_vars

\* C3, the case: a triggered occurrence was written again after its trigger (by
\* an update or a sync) and is still triggered
TriggeredThenWritten ==
    \E r \in Rows : /\ reminders[r].is_triggered
                    /\ reminders[r].updated_at > reminders[r].triggered_at

\* C4: triggered_at is present exactly on the triggered occurrences and has been
\* written exactly once on each of them, never on the others
TriggeredAtWrittenOnce ==
    \A r \in Rows :
        /\ reminders[r].triggered_at # Null <=> reminders[r].is_triggered
        /\ triggeredWrites[r] = IF reminders[r].is_triggered THEN 1 ELSE 0

\* C5: a triggered occurrence holds no timer handle
TriggeredHasNoHandle ==
    \A r \in Rows : reminders[r].is_triggered => reminders[r].celery_task_id = None

\* the series ids in the table
SeriesIds == {reminders[r].series_id : r \in Rows} \ {None}

\* the rows of one series
SeriesRows(sid) == {r \in Rows : reminders[r].series_id = sid}

\* C9: within a series fire_at is strictly increasing with occurrence_number
FireAtIncreasing ==
    \A sid \in SeriesIds : \A r1, r2 \in SeriesRows(sid) :
        reminders[r1].occurrence_number < reminders[r2].occurrence_number
            => reminders[r1].reminder_time < reminders[r2].reminder_time

\* C10: every series in the table has exactly one row without a parent, that row
\* is occurrence 1, and it is the parent of every other row of the series
OneAnchor ==
    \A sid \in SeriesIds :
        \E a \in SeriesRows(sid) :
            /\ reminders[a].parent_reminder_id = None
            /\ reminders[a].occurrence_number = 1
            /\ \A r \in SeriesRows(sid) \ {a} : reminders[r].parent_reminder_id = a

\* series_id is present on a row exactly when its recurrence type is not 'once'
HasSeriesIffRecurring(row) == (row.series_id # None) <=> (row.recurrence_type # "once")

\* C11: a create or an update served on a table in which every occurrence has a
\* series_id iff its recurrence type is not 'once' leaves such a table, and the
\* occurrences one create returns carry the same series_id
SeriesIdPreserved ==
    [][(/\ calls' # calls
        /\ last'.op \in {"create", "update"}
        /\ \A r \in Rows : HasSeriesIffRecurring(reminders[r]))
          => /\ \A r \in DOMAIN reminders' : HasSeriesIffRecurring(reminders'[r])
             /\ last'.op = "create" =>
                    \A r, q \in last'.returned :
                        reminders'[r].series_id = reminders'[q].series_id]_vars

\* the step is a request of the kind op that found its row and was served
Served(op) == calls' # calls /\ last'.op = op /\ last'.found

\* the timers armed for the occurrence r among the jobs js
TimersOf(js, r) == {j \in js : j.id = r}

\* C12: a create returns and persists, untriggered, one row per timestamp of the
\* expansion whatever arming calls fail; a row is left without a timer exactly
\* when it is left without a handle; and an untriggered row without a handle
\* whose fire_at has passed is in the due set of the sweep
ArmingFailureNonFatal ==
    [][/\ Served("create") =>
            \E t \in CreateTimes, rule \in CreateRules, k \in CreateIntervals :
                LET times == GenerateOccurrenceTimes(t, rule[2], k, rule[3], rule[4], now)
                IN /\ last'.count = Len(times)
                   /\ last'.returned = nextId..(nextId + Len(times) - 1)
                   /\ DOMAIN reminders' = Rows \cup last'.returned
                   /\ \A i \in 1..Len(times) :
                         LET r == nextId + i - 1
                         IN /\ reminders'[r].user_id = rule[1]
                            /\ reminders'[r].reminder_time = times[i]
                            /\ ~reminders'[r].is_triggered
                            /\ TimersOf(jobs', r) = {} <=> reminders'[r].celery_task_id = None
                            /\ TimersOf(jobs', r) \subseteq {[id |-> r, run_date |-> times[i]]}
       /\ \A r \in Rows :
             (/\ reminders[r].celery_task_id = None
              /\ ~reminders[r].is_triggered
              /\ reminders[r].reminder_time <= now) => r \in MissedReminders]_vars

\* C12, the case: a create returned three rows, arming failed for some of them
\* and not for others, and a row left without a handle is past its fire_at,
\* untriggered and in the due set
UnarmedIsDue ==
    /\ last.op = "create" /\ last.count = 3
    /\ last.returned \subseteq Rows
    /\ \E r, q \in last.returned :
          /\ reminders[r].celery_task_id = None /\ TimersOf(jobs, r) = {}
          /\ reminders[q].celery_task_id # None
          /\ reminders[r].reminder_time < now
          /\ r \in MissedReminders

\* the occurrences an update of target is meant to change: the target, and with
\* apply_to_series the not-yet-triggered occurrences of its series
IntendedRows(target, series) ==
    {target} \cup
    {r \in Rows : /\ series
                  /\ reminders[target].series_id # None
                  /\ reminders[r].series_id = reminders[target].series_id
                  /\ reminders[r].user_id = reminders[target].user_id
                  /\ ~reminders[r].is_triggered}

\* the row after the step carries the fields f of an update request
CarriesFields(r, f) ==
    /\ f[1] # Null => reminders'[r].reminder_time = f[1]
    /\ f[2] # Unset => reminders'[r].recurrence_type = f[2]
    /\ f[1] = Null => reminders'[r].reminder_time = reminders[r].reminder_time
    /\ f[2] = Unset => reminders'[r].recurrence_type = reminders[r].recurrence_type

TriggeredFireAtKept ==
    [][Served("update") =>
          \A r \in Rows :
              reminders[r].is_triggered =>
                  /\ reminders'[r].reminder_time = reminders[r].reminder_time
                  /\ TimersOf(jobs', r) \subseteq TimersOf(jobs, r)]_vars

\* the update step changes the fire_at of the occurrence r, untriggered before it
MovesFireAt(r) ==
    /\ r \in last'.returned
    /\ ~reminders[r].is_triggered
    /\ reminders'[r].reminder_time # reminders[r].reminder_time

SingleDeleteFrame ==
    [][(Served("delete") /\ ~last'.series) =>
          /\ DOMAIN reminders' = Rows \ {last'.reminder_id}
          /\ last'.count = 1
          /\ \A r \in Rows \ {last'.reminder_id} :
                /\ reminders'[r].series_id = reminders[r].series_id
                /\ reminders'[r].parent_reminder_id = reminders[r].parent_reminder_id
                /\ reminders'[r].reminder_time = reminders[r].reminder_time
                /\ reminders'[r].is_triggered = reminders[r].is_triggered]_vars

\* C17: a delete with apply_to_series=true on an occurrence of a series removes
\* every row of that series of the owner, triggered or not, leaves no timer
\* armed for a removed row, and returns the number of rows removed
SeriesDeleteComplete ==
    [][(/\ Served("delete") /\ last'.series
        /\ reminders[last'.reminder_id].series_id # None) =>
          LET target == reminders[last'.reminder_id]
              gone == Rows \ DOMAIN reminders'
          IN /\ gone = {r \in Rows : /\ reminders[r].series_id = target.series_id
                                      /\ reminders[r].user_id = target.user_id}
             /\ \A r \in DOMAIN reminders' : reminders'[r].series_id # target.series_id
             /\ \A r \in gone : TimersOf(jobs', r) = {}
             /\ last'.count = Cardinality(gone)]_vars

\* the call of the dispatcher in slot s takes a step, the process not stopping
CallSteps(s) == disp'[s] # disp[s] /\ running'

\* C18: a call of the dispatcher with the id of an occurrence that is missing
\* or already triggered returns at once: no delivery is attempted, no row is
\* created, removed or written (triggered_at is not rewritten), no timer
\* changes, and the caller, timer or sweep, goes on
DispatchNoOp ==
    [][\A s \in Slots :
          (/\ CallSteps(s) /\ disp[s].pc = "load"
           /\ \/ disp[s].rid \notin Rows
              \/ reminders[disp[s].rid].is_triggered) =>
              /\ disp'[s] = Idle
              /\ UNCHANGED <<reminders, deliveries, triggeredWrites, jobs, sweep>>]_vars

\* C18, the case: the sweep calls the dispatcher with the id of an occurrence
\* deleted since the due-set query, while a timer calls it with the id of an
\* occurrence that is already triggered
CalledOnGoneAndOnTriggered ==
    /\ disp["sweep"].pc = "load"
    /\ disp["sweep"].rid \notin Rows
    /\ last.op = "delete" /\ disp["sweep"].rid \in last.returned
    /\ disp["timer"].pc = "load"
    /\ disp["timer"].rid \in Rows
    /\ reminders[disp["timer"].rid].is_triggered
    /\ triggeredWrites[disp["timer"].rid] = 1

\* C19: the fan-out of a dispatcher call makes exactly one delivery attempt to
\* every token read for the owner, whatever the transport does with the
\* attempts to the other tokens, and none to any other token or for any other
\* occurrence
FanOutReachesAll ==
    [][\A s \in Slots :
          (CallSteps(s) /\ disp[s].pc = "send") =>
              \A p \in DOMAIN deliveries :
                  deliveries'[p] = deliveries[p] +
                      (IF p[1] = disp[s].rid /\ p[2] \in Range(disp[s].todo) THEN 1 ELSE 0)]_vars

\* C19, the case: the attempt to the first token raised and the second token
\* got its one attempt, in a fan-out that counted at least one failure
SecondTokenAfterRaise ==
    \E s \in Slots :
        /\ transport["a"] = "raised"
        /\ disp[s].pc = "mark" /\ disp[s].failed >= 1
        /\ FcmTokens(reminders[disp[s].rid].user_id) = <<"a", "b">>
        /\ deliveries[<<disp[s].rid, "a">>] = 1
        /\ deliveries[<<disp[s].rid, "b">>] = 1

NeverRetried ==
    \A r \in Ids : \A k \in AllTokens : deliveries[<<r, k>>] <= 1

\* the rows whose stored handle names no job of the store: the job has fired,
\* was cancelled, or was lost
StaleHandles ==
    {r \in Rows : reminders[r].celery_task_id # None
                  /\ TimersOf(jobs, reminders[r].celery_task_id) = {}}

\* C22: a cancel of a handle that names no job (fired, cancelled before, or
\* never armed) leaves the job store as it is; the update or delete request
\* that makes it is served, and over that request no job of another row comes
\* or goes, no dispatcher call starts or moves, nothing is delivered and no
\* row changes its triggered state
CancelIdempotent ==
    [][(Served("delete") \/ Served("update")) =>
          /\ \A id \in Ids : TimersOf(jobs, id) = {} => CancelReminder(jobs, id) = jobs
          /\ \A r \in last'.returned \cap StaleHandles : last'.op = "delete" =>
                 TimersOf(jobs', r) = {}
          /\ {j \in jobs' : j.id \notin last'.returned}
                = {j \in jobs : j.id \notin last'.returned}
          /\ last'.op = "delete" => jobs' \subseteq jobs
          /\ disp' = disp
          /\ deliveries' = deliveries
          /\ triggeredWrites' = triggeredWrites
          /\ \A r \in Rows \cap DOMAIN reminders' :
                 reminders'[r].is_triggered = reminders[r].is_triggered]_vars

\* a date job has fired and its call is in progress when the row is deleted:
\* the delete has cancelled the handle of the fired job, other jobs are armed
DeletedAfterFire ==
    /\ last.op = "delete"
    /\ disp["timer"].pc = "load"
    /\ disp["timer"].rid \in last.returned
    /\ jobs # {}

UpdateNotFoundIff ==
    [][(calls' # calls /\ last'.op = "update") =>
          (ResponseStatus(last') = "404"
             <=> ~Owned(last'.reminder_id, last'.user_id))]_vars

\* C25: a dispatcher call sends to a token of the occurrence only once the
\* triggered write of that occurrence is done: whenever a delivery count of
\* an occurrence goes up, the row is already triggered
TriggeredBeforeDelivery ==
    [][\A r \in Ids : \A k \in AllTokens :
          deliveries'[<<r, k>>] > deliveries[<<r, k>>] =>
              r \in Rows /\ reminders[r].is_triggered]_vars

\* C26: a timer is armed for an occurrence only once the occurrence is
\* persisted and visible to the sessions of the dispatcher and the sweep:
\* every job of the store names a row of the table (no row is deleted here)
ArmedIsPersisted ==
    \A j \in jobs : j.id \in Rows

\* the date job of a row has fired while create_reminder has not committed it
FiredBeforeCommit ==
    /\ disp["timer"].pc = "load"
    /\ disp["timer"].rid \in DOMAIN pending.rows

\* the commit of create_reminder has raised and a job of its rows is armed
ArmedAfterRollback ==
    /\ last.op = "create" /\ ~last.found
    /\ \E j \in jobs : j.id \notin Rows /\ j.id \notin DOMAIN pending.rows

\* C27: every message the dispatcher hands to send_notification for an
\* occurrence has the notification_title of the occurrence as its title and
\* its notification_content as its body, for every token of the fan-out
NotificationCarriesContent ==
    \A m \in outbox : m.reminder_id \in Rows =>
        /\ m.title = reminders[m.reminder_id].notification_title
        /\ m.body = reminders[m.reminder_id].notification_content

\* C28: in every state the job store holds at most one date job per
\* occurrence, whatever create, update and sync requests were served
OneTimerPerOccurrence ==
    \A r \in Ids : Cardinality(TimersOf(jobs, r)) <= 1

\* a series update has moved several armed occurrences: each of them has its
\* one job, at the new time
SeriesRearmedOnce ==
    /\ last.op = "update" /\ last.series
    /\ Cardinality(last.returned) >= 2
    /\ \A r \in last.returned :
          /\ r \in Rows
          /\ reminders[r].reminder_time = 14
          /\ TimersOf(jobs, r) = {[id |-> r, run_date |-> 14]}

\* C29: after a create, update or sync request every job armed for an
\* untriggered occurrence runs at the reminder_time the occurrence now has
TimersAtFireAt ==
    [][(calls' # calls /\ last'.op \in {"create", "update", "sync"}) =>
          \A j \in jobs' :
              (j.id \in DOMAIN reminders' /\ ~reminders'[j.id].is_triggered) =>
                  j.run_date = reminders'[j.id].reminder_time]_vars

\* C30: whenever an occurrence becomes triggered, the instant is at or after
\* the reminder_time the occurrence has at that moment
NoEarlyTrigger ==
    [][\A r \in Rows \cap DOMAIN reminders' :
          (~reminders[r].is_triggered /\ reminders'[r].is_triggered) =>
              now >= reminders'[r].reminder_time]_vars

\* ------------------------------------------- properties of the expansion

\* the instant one year after the creation instant of the run
ExHorizon == ex.input.utcnow + HorizonDays * TicksPerDay

\* C6, as the specification states it: at most 100 timestamps, none of them, the
\* first included, later than the creation instant + 365 days
ExpansionBounds ==
    ex.phase = "out" =>
        /\ Len(ex.result) <= max_occurrences
        /\ \A i \in 1..Len(ex.result) : ex.result[i] <= ExHorizon

\* C6, amended: at most 100 timestamps, none of them other than the first (the
\* start_time, which is always returned) later than the creation instant + 365
\* days
ExpansionBoundsAfterFirst ==
    ex.phase = "out" =>
        /\ Len(ex.result) <= max_occurrences
        /\ \A i \in 2..Len(ex.result) : ex.result[i] <= ExHorizon

\* C6, the case: a rule that never ends, cut at 100 timestamps by the cap, and a
\* rule cut by the horizon
CutByCap ==
    /\ ex.phase = "out"
    /\ ex.input.recurrence_end_type = "never"
    /\ Len(ex.result) = max_occurrences
    /\ ex.result[max_occurrences] <= ExHorizon

\* the length of one step of a fixed-duration rule
FixedStep(recurrence_type, recurrence_interval) ==
    recurrence_interval * (CASE recurrence_type = "hourly" -> TicksPerHour
                             [] recurrence_type = "daily" -> TicksPerDay
                             [] recurrence_type = "weekly" -> TicksPerWeek)

\* how many timestamps start_time + i * step, i >= 0, are within the horizon; the
\* start_time counts even when it is beyond it
WithinHorizon(start_time, step, horizon) ==
    IF start_time > horizon THEN 1 ELSE 1 + ((horizon - start_time) \div step)

\* C7: for hourly, daily and weekly rules with interval k that end after N
\* occurrences the expansion is [start_time + i * k * unit : i in 0..M-1], M
\* being N capped by 100 and by the number of timestamps within the horizon
FixedDurationExact ==
    (/\ ex.phase = "out"
     /\ ex.input.recurrence_type \in {"hourly", "daily", "weekly"}
     /\ ex.input.recurrence_end_type = "after_occurrences"
     /\ ex.input.recurrence_end_value.kind = "count") =>
        LET step == FixedStep(ex.input.recurrence_type, ex.input.recurrence_interval)
            M == Min(Min(ex.input.recurrence_end_value.n, max_occurrences),
                     WithinHorizon(ex.input.start_time, step, ExHorizon))
        IN ex.result = [i \in 1..M |-> ex.input.start_time + (i - 1) * step]

\* C7, the case: daily, interval 2, after 3 occurrences, from T: [T, T+2d, T+4d]
EveryOtherDayThrice ==
    /\ ex.phase = "out"
    /\ ex.input.recurrence_type = "daily"
    /\ ex.input.recurrence_interval = 2
    /\ ex.input.recurrence_end_type = "after_occurrences"
    /\ ex.input.recurrence_end_value = CountValue(3)
    /\ ex.result = <<ex.input.start_time, ex.input.start_time + 2 * TicksPerDay,
                     ex.input.start_time + 4 * TicksPerDay>>

\* C8: with an end date D the expansion is start_time followed by the successive
\* candidates that are not after the instant D, up to the first candidate after
\* D, the 100th timestamp or the horizon; it is [start_time] when D is before
\* start_time
EndDateExact ==
    (/\ ex.phase = "out"
     /\ ex.input.recurrence_type # "once"
     /\ ex.input.recurrence_end_type = "on_date"
     /\ ex.input.recurrence_end_value.kind = "date") =>
        LET D == InstantOf(ex.input.recurrence_end_value)
            n == Len(ex.result)
            candidate == NextOccurrence(ex.result[n], ex.input.recurrence_type,
                                        ex.input.recurrence_interval)
        IN /\ n >= 1 /\ ex.result[1] = ex.input.start_time
           /\ \A i \in 2..n :
                 /\ ex.result[i] = NextOccurrence(ex.result[i - 1], ex.input.recurrence_type,
                                                  ex.input.recurrence_interval)
                 /\ ex.result[i] <= D
           /\ n = max_occurrences \/ candidate > D \/ candidate > ExHorizon
           /\ D < ex.input.start_time => n = 1

====
